---- MODULE Spec2Model ----
(***************************************************************************)
(* Model of Table_Plans.py: the per-meal backtracking search               *)
(* (_find_arrangement_backtrack), the rotation check                       *)
(* (are_arrangements_same) and the planner loop (seat_people).             *)
(*                                                                         *)
(* A person is identified by the position of the record in all_people_info *)
(* (registry order).  A name is the rank of the name string in             *)
(* lexicographic order, so that `name1 < name2` of the source is `<` here. *)
(* Python's None is modelled by the empty sequence: every place where the  *)
(* source tests a returned plan tests its truthiness, which None and []    *)
(* share.                                                                  *)
(***************************************************************************)
EXTENDS Integers, Sequences, FiniteSets, TLC

VARIABLES
    all_people_info,                      \* the registry: person -> record
    meal_names_list,                      \* the ordered list of meal names
    final_seating_arrangements,           \* dict: meal name -> list of plans
    all_seated_neighbour_pairs_globally,  \* set of canonical name pairs
    meal_idx,                             \* position of seat_people's for loop
    pc,                                   \* "loop", "call", "ret", "done";
                                          \* "compare", "compared"
    stack,                                \* frames of _find_arrangement_backtrack
    found_plan,                           \* value returned by the last call
    arr1, arr2, same_result               \* are_arrangements_same: inputs, output

vars == <<all_people_info, meal_names_list, final_seating_arrangements,
          all_seated_neighbour_pairs_globally, meal_idx, pc, stack, found_plan,
          arr1, arr2, same_result>>

rotation_vars == <<arr1, arr2, same_result>>

----------------------------------------------------------------------------
(* Bounds *)

NumPeople == 4
NumEvents == 2
MaxRotLen == 3

(* Program constants *)

BONUS_PREFERRED == -1000
PENALTY_RELATION == 100
PENALTY_SEX_VIOLATION == 50

People == 1 .. Len(all_people_info)
Meals == 1 .. NumEvents
Sexes == {"male", "female"}
None == << >>

Range(s) == {s[i] : i \in DOMAIN s}

----------------------------------------------------------------------------
(* Person *)

Person(name, sex, relations, preferred, meals) ==
    [name |-> name, sex |-> sex, relations |-> relations,
     preferred |-> preferred, meals |-> meals]

NameOf(p) == all_people_info[p].name
SexOf(p) == all_people_info[p].sex

is_related_to(p, other_person) == NameOf(other_person) \in all_people_info[p].relations

prefers(p, other_person) == NameOf(other_person) \in all_people_info[p].preferred

(* Mutant of CanonicalPair: the names in the order of the seats. *)
CanonicalPairAsSeated(p1, p2) == <<NameOf(p1), NameOf(p2)>>

(* The canonical pair of two people: the smaller name first. *)
CanonicalPair(p1, p2) ==
    IF NameOf(p1) < NameOf(p2) THEN <<NameOf(p1), NameOf(p2)>>
                               ELSE <<NameOf(p2), NameOf(p1)>>

----------------------------------------------------------------------------
(* Mutant of are_arrangements_same: only the first place of the first person
   in the second plan is tried as a start. *)
are_arrangements_same_first_start(arr_a, arr_b) ==
    LET n1 == Len(arr_a)
        n2 == Len(arr_b)
    IN  IF n1 # n2 THEN FALSE
        ELSE IF n1 = 0 THEN TRUE
        ELSE LET possible_starts_in_arr2 ==
                     {i \in 1 .. n2 : NameOf(arr_b[i]) = NameOf(arr_a[1])}
             IN  /\ possible_starts_in_arr2 # {}
                 /\ LET start_idx ==
                            CHOOSE i \in possible_starts_in_arr2 :
                                \A j \in possible_starts_in_arr2 : i <= j
                    IN  \A i \in 0 .. (n1 - 1) :
                            NameOf(arr_a[i + 1])
                                = NameOf(arr_b[((start_idx - 1 + i) % n1) + 1])

(* are_arrangements_same: is arr_b a rotation of arr_a (names compared)? *)

are_arrangements_same(arr_a, arr_b) ==
    LET n1 == Len(arr_a)
        n2 == Len(arr_b)
    IN  IF n1 # n2 THEN FALSE
        ELSE IF n1 = 0 THEN TRUE
        ELSE LET possible_starts_in_arr2 ==
                     {i \in 1 .. n2 : NameOf(arr_b[i]) = NameOf(arr_a[1])}
             IN  \E start_idx \in possible_starts_in_arr2 :
                     \A i \in 0 .. (n1 - 1) :
                         NameOf(arr_a[i + 1])
                             = NameOf(arr_b[((start_idx - 1 + i) % n1) + 1])

----------------------------------------------------------------------------
(* _find_arrangement_backtrack *)

(* person_seated_last: the last person of the prefix, 0 for Python's None. *)
PersonSeatedLast(current_arrangement) ==
    IF Len(current_arrangement) > 0
    THEN current_arrangement[Len(current_arrangement)] ELSE 0

(* Mutant of IsNotAllowed: the repeat-neighbour rule is not applied to a
   candidate. *)
IsNotAllowedIgnoringLedger(person_seated_last, person_to_try, used_up) ==
    /\ person_seated_last # 0
    /\ SexOf(person_seated_last) = SexOf(person_to_try)
    /\ used_up

(* The hard rules of the recursive step (is_not_allowed). *)
IsNotAllowed(person_seated_last, person_to_try, used_up) ==
    /\ person_seated_last # 0
    /\ \/ CanonicalPair(person_seated_last, person_to_try)
              \in all_seated_neighbour_pairs_globally
       \/ /\ SexOf(person_seated_last) = SexOf(person_to_try)
          /\ used_up

(* Mutant of WillCauseSexViolationNow: the one same-sex pair is never counted
   as used. *)
WillCauseSexViolationNowNever(person_seated_last, person_to_try, used_up) == FALSE

(* will_cause_sex_violation_now of a candidate that is allowed. *)
WillCauseSexViolationNow(person_seated_last, person_to_try, used_up) ==
    /\ person_seated_last # 0
    /\ ~ IsNotAllowed(person_seated_last, person_to_try, used_up)
    /\ SexOf(person_seated_last) = SexOf(person_to_try)

(* current_score of a candidate that is allowed. *)
CandidateScore(person_seated_last, person_to_try, used_up) ==
    IF person_seated_last = 0 THEN 0
    ELSE (IF WillCauseSexViolationNow(person_seated_last, person_to_try, used_up)
          THEN PENALTY_SEX_VIOLATION ELSE 0)
       + (IF \/ is_related_to(person_seated_last, person_to_try)
             \/ is_related_to(person_to_try, person_seated_last)
          THEN PENALTY_RELATION ELSE 0)
       + (IF \/ prefers(person_seated_last, person_to_try)
             \/ prefers(person_to_try, person_seated_last)
          THEN BONUS_PREFERRED ELSE 0)

(* The people of possible_next_people: the candidates no hard rule excludes. *)
PossibleNextPeople(current_arrangement, remaining_people, used_up) ==
    {p \in remaining_people :
        ~ IsNotAllowed(PersonSeatedLast(current_arrangement), p, used_up)}

(* Mutant of BaseCase: the pair (last, first) is not looked up in the ledger. *)
BaseCaseNoLedgerCheck(current_arrangement, arrangements_already_found, used_up) ==
    LET first_person == current_arrangement[1]
        last_person == current_arrangement[Len(current_arrangement)]
    IN  IF SexOf(last_person) = SexOf(first_person) /\ used_up THEN None
        ELSE IF \E k \in DOMAIN arrangements_already_found :
                    are_arrangements_same(current_arrangement,
                                          arrangements_already_found[k])
             THEN None
        ELSE current_arrangement

(* Mutant of BaseCase: the sexes of (last, first) are not compared. *)
BaseCaseNoSexCheck(current_arrangement, arrangements_already_found, used_up) ==
    LET first_person == current_arrangement[1]
        last_person == current_arrangement[Len(current_arrangement)]
        final_pair == CanonicalPair(last_person, first_person)
    IN  IF final_pair \in all_seated_neighbour_pairs_globally THEN None
        ELSE IF \E k \in DOMAIN arrangements_already_found :
                    are_arrangements_same(current_arrangement,
                                          arrangements_already_found[k])
             THEN None
        ELSE current_arrangement

(* The base case: every person is placed; the value returned. *)
BaseCase(current_arrangement, arrangements_already_found, used_up) ==
    LET first_person == current_arrangement[1]
        last_person == current_arrangement[Len(current_arrangement)]
        final_pair == CanonicalPair(last_person, first_person)
    IN  IF final_pair \in all_seated_neighbour_pairs_globally THEN None
        ELSE IF SexOf(last_person) = SexOf(first_person) /\ used_up THEN None
        ELSE IF \E k \in DOMAIN arrangements_already_found :
                    are_arrangements_same(current_arrangement,
                                          arrangements_already_found[k])
             THEN None
        ELSE current_arrangement

(* A frame of the recursion: the arguments of the call that vary, and the
   entries of possible_next_people the for loop has not reached yet.  The list
   is sorted by score with a stable sort of a list built by iterating over a
   set of Person objects, whose order the language leaves open: the loop's next
   entry is any not yet tried candidate of the lowest score. *)
Frame(current_arrangement, remaining_people, used_up) ==
    [current_arrangement |-> current_arrangement,
     remaining_people |-> remaining_people,
     sex_violation_already_used_up |-> used_up,
     possible_next_people |->
         PossibleNextPeople(current_arrangement, remaining_people, used_up)]

Top == stack[Len(stack)]
Pop == SubSeq(stack, 1, Len(stack) - 1)

----------------------------------------------------------------------------
(* seat_people *)

DictSet(d, key, value) ==
    [k \in (DOMAIN d) \cup {key} |-> IF k = key THEN value ELSE d[k]]

DictGet(d, key, default) == IF key \in DOMAIN d THEN d[key] ELSE default

(* attendees_this_meal: the people of the registry, in registry order, whose
   meals hold meal_name. *)
AttendeesThisMeal(meal_name) ==
    LET upto[i \in 0 .. Len(all_people_info)] ==
            IF i = 0 THEN << >>
            ELSE IF meal_name \in all_people_info[i].meals
                 THEN Append(upto[i - 1], i)
                 ELSE upto[i - 1]
    IN  upto[Len(all_people_info)]

CurrentMeal == meal_names_list[meal_idx]

(* Mutant of NeighbourPairs: the pair (last, first) is left out. *)
NeighbourPairsNoWrap(arrangement) ==
    {CanonicalPair(arrangement[i], arrangement[i + 1]) :
        i \in 1 .. (Len(arrangement) - 1)}

(* The canonical pairs of the adjacent seats (i, i + 1 mod n) of a plan. *)
NeighbourPairs(arrangement) ==
    {CanonicalPair(arrangement[i], arrangement[(i % Len(arrangement)) + 1]) :
        i \in 1 .. Len(arrangement)}

(* The registries and meal lists planning starts from.  The meal names of a
   CSV header are numbered in the order of their first occurrence; a header
   may repeat a name.  A person's meals are among the header's names. *)
MealLists ==
    {ml \in [1 .. NumEvents -> Meals] :
        /\ ml[1] = 1
        /\ \A i \in 2 .. NumEvents :
              \E j \in 1 .. (i - 1) : ml[i] <= ml[j] + 1}

(* The names of a registry of n people: unique, and the registry is not in
   the order of the names (the last person has the smallest name). *)
NamesOf(n) == [p \in 1 .. n |-> (p % n) + 1]

(* Empty relations, or empty preferred, for each of n people. *)
NoOne(n) == [p \in 1 .. n |-> {}]

(* Women and men in turn along the registry. *)
InTurn(n) == [p \in 1 .. n |-> IF p % 2 = 1 THEN "female" ELSE "male"]

(* Relations: none, or the first person names the last. *)
RelationChoices(n) ==
    {NoOne(n), [p \in 1 .. n |-> IF p = 1 THEN {NamesOf(n)[n]} ELSE {}]}

(* Preferred: neighbours in the registry name each other (1 and 2, 3 and 4,
   ...), or the first person names the third, who is of the same sex. *)
PreferredChoices(n) ==
    {[p \in 1 .. n |-> IF p % 2 = 1
                       THEN (IF p + 1 <= n THEN {NamesOf(n)[p + 1]} ELSE {})
                       ELSE {NamesOf(n)[p - 1]}],
     [p \in 1 .. n |-> IF p = 1 /\ n >= 3 THEN {NamesOf(n)[3]} ELSE {}]}

(* Sex, relations and preferred of the n people: every assignment of the
   sexes without relations or preferences, and women and men in turn with
   each choice of the relations and of the preferences. *)
Facts(n) ==
    {[sex |-> sx, relations |-> NoOne(n), preferred |-> NoOne(n)] :
        sx \in [1 .. n -> Sexes]}
    \cup {[sex |-> InTurn(n), relations |-> rel, preferred |-> prf] :
             rel \in RelationChoices(n), prf \in PreferredChoices(n)}

(* Init: a registry of up to NumPeople people and a meal list.  Every person
   of the registry attends a meal (a person who attends none takes no part in
   planning, as in a smaller registry). *)
Init ==
    /\ \E ml \in MealLists :
          \E n \in 1 .. NumPeople :
              \E f \in Facts(n), att \in [1 .. n -> (SUBSET Range(ml)) \ {{}}] :
                  /\ meal_names_list = ml
                  /\ all_people_info =
                         [p \in 1 .. n |->
                             Person(NamesOf(n)[p], f.sex[p], f.relations[p],
                                    f.preferred[p], att[p])]
    /\ final_seating_arrangements = << >>
    /\ all_seated_neighbour_pairs_globally = {}
    /\ meal_idx = 1
    /\ pc = "loop"
    /\ stack = << >>
    /\ found_plan = None
    /\ arr1 = << >>
    /\ arr2 = << >>
    /\ same_result = FALSE

AtLoopHead == pc = "loop" /\ meal_idx <= Len(meal_names_list)

(* num_attendees_for_this_meal == 0 *)
NoAttendees ==
    /\ AtLoopHead
    /\ Len(AttendeesThisMeal(CurrentMeal)) = 0
    /\ final_seating_arrangements' =
           DictSet(final_seating_arrangements, CurrentMeal, << >>)
    /\ meal_idx' = meal_idx + 1
    /\ UNCHANGED <<all_people_info, meal_names_list,
                   all_seated_neighbour_pairs_globally, pc, stack, found_plan>>
    /\ UNCHANGED rotation_vars

(* num_attendees_for_this_meal == 1 *)
OneAttendee ==
    /\ AtLoopHead
    /\ Len(AttendeesThisMeal(CurrentMeal)) = 1
    /\ final_seating_arrangements' =
           DictSet(final_seating_arrangements, CurrentMeal,
                   <<AttendeesThisMeal(CurrentMeal)>>)
    /\ meal_idx' = meal_idx + 1
    /\ UNCHANGED <<all_people_info, meal_names_list,
                   all_seated_neighbour_pairs_globally, pc, stack, found_plan>>
    /\ UNCHANGED rotation_vars

(* Mutant of NeedsSearch: a single attendee is not set apart. *)
NeedsSearchUnlessEmpty(num_attendees_for_this_meal) ==
    num_attendees_for_this_meal # 0

(* Neither `continue` is taken: the search is needed. *)
NeedsSearch(num_attendees_for_this_meal) ==
    /\ num_attendees_for_this_meal # 0
    /\ num_attendees_for_this_meal # 1

(* The call of _find_arrangement_backtrack with an empty table. *)
InvokeSearch ==
    /\ AtLoopHead
    /\ NeedsSearch(Len(AttendeesThisMeal(CurrentMeal)))
    /\ stack' = <<Frame(<< >>, Range(AttendeesThisMeal(CurrentMeal)), FALSE)>>
    /\ pc' = "call"
    /\ UNCHANGED <<all_people_info, meal_names_list, final_seating_arrangements,
                   all_seated_neighbour_pairs_globally, meal_idx, found_plan>>
    /\ UNCHANGED rotation_vars

total_people_to_seat == Len(AttendeesThisMeal(CurrentMeal))

arrangements_already_found_for_this_meal ==
    DictGet(final_seating_arrangements, CurrentMeal, << >>)

(* Where a call that returns value to the frames below it leaves control:
   a caller that gets None goes on with its for loop ("call"); a caller that
   gets a plan, and seat_people, look at the value next ("ret"). *)
AfterReturn(value) == IF value = None /\ Len(stack) > 1 THEN "call" ELSE "ret"

(* The base case of the running call returns. *)
AllPlaced ==
    /\ pc = "call"
    /\ Len(Top.current_arrangement) = total_people_to_seat
    /\ found_plan' = BaseCase(Top.current_arrangement,
                              arrangements_already_found_for_this_meal,
                              Top.sex_violation_already_used_up)
    /\ stack' = Pop
    /\ pc' = AfterReturn(found_plan')
    /\ UNCHANGED <<all_people_info, meal_names_list, final_seating_arrangements,
                   all_seated_neighbour_pairs_globally, meal_idx>>
    /\ UNCHANGED rotation_vars

(* Mutant of NextInSortedOrder: possible_next_people is not sorted. *)
NextInAnyOrder(frame) == frame.possible_next_people

(* The entry the for loop over the sorted possible_next_people takes next. *)
NextInSortedOrder(frame) ==
    LET last == PersonSeatedLast(frame.current_arrangement)
        used == frame.sex_violation_already_used_up
    IN  {p \in frame.possible_next_people :
            \A q \in frame.possible_next_people :
                CandidateScore(last, p, used) <= CandidateScore(last, q, used)}

(* Mutant of StillToTry: the loop does not move on to its next entry. *)
StillToTryAll(frame, person_added) == frame.possible_next_people

(* Mutant of StillToTry: the loop ends with its first entry. *)
StillToTryNothing(frame, person_added) == {}

(* The entries of the sorted list that follow person_added: the for loop goes
   on with them when the recursive call returns None. *)
StillToTry(frame, person_added) == frame.possible_next_people \ {person_added}

(* Mutant of RemainingAfterThisAdd: the person stays among the remaining. *)
RemainingUnchanged(remaining_people, person_added) == remaining_people

(* remaining_after_this_add *)
RemainingAfterThisAdd(remaining_people, person_added) ==
    remaining_people \ {person_added}

(* One iteration of the for loop: the recursive call with person_added. *)
TryPerson ==
    /\ pc = "call"
    /\ Len(Top.current_arrangement) < total_people_to_seat
    /\ \E person_added \in NextInSortedOrder(Top) :
          LET creates_violation_this_step ==
                  WillCauseSexViolationNow(
                      PersonSeatedLast(Top.current_arrangement), person_added,
                      Top.sex_violation_already_used_up)
              caller == [Top EXCEPT !.possible_next_people =
                                        StillToTry(Top, person_added)]
              callee == Frame(Append(Top.current_arrangement, person_added),
                              RemainingAfterThisAdd(Top.remaining_people,
                                                    person_added),
                              Top.sex_violation_already_used_up
                                  \/ creates_violation_this_step)
          IN  stack' = Append(Append(Pop, caller), callee)
    /\ UNCHANGED <<all_people_info, meal_names_list, final_seating_arrangements,
                   all_seated_neighbour_pairs_globally, meal_idx, pc, found_plan>>
    /\ UNCHANGED rotation_vars

(* The for loop is over: return None. *)
NoPersonLedToSolution ==
    /\ pc = "call"
    /\ Len(Top.current_arrangement) < total_people_to_seat
    /\ Top.possible_next_people = {}
    /\ found_plan' = None
    /\ stack' = Pop
    /\ pc' = AfterReturn(None)
    /\ UNCHANGED <<all_people_info, meal_names_list, final_seating_arrangements,
                   all_seated_neighbour_pairs_globally, meal_idx>>
    /\ UNCHANGED rotation_vars

(* if found_plan: return found_plan *)
ReturnFoundPlan ==
    /\ pc = "ret"
    /\ stack # << >>
    /\ found_plan # None
    /\ stack' = Pop
    /\ UNCHANGED <<all_people_info, meal_names_list, final_seating_arrangements,
                   all_seated_neighbour_pairs_globally, meal_idx, pc, found_plan>>
    /\ UNCHANGED rotation_vars

(* if current_best_arrangement: record the plan and its neighbour pairs. *)
PlanFound ==
    /\ pc = "ret"
    /\ stack = << >>
    /\ found_plan # None
    /\ final_seating_arrangements' =
           DictSet(final_seating_arrangements, CurrentMeal,
                   Append(DictGet(final_seating_arrangements, CurrentMeal, << >>),
                          found_plan))
    /\ all_seated_neighbour_pairs_globally' =
           all_seated_neighbour_pairs_globally \cup NeighbourPairs(found_plan)
    /\ meal_idx' = meal_idx + 1
    /\ pc' = "loop"
    /\ UNCHANGED <<all_people_info, meal_names_list, stack, found_plan>>
    /\ UNCHANGED rotation_vars

(* Mutant of NoPlanFound: a failed search ends planning. *)
NoPlanFoundStops ==
    /\ pc = "ret"
    /\ stack = << >>
    /\ found_plan = None
    /\ pc' = "done"
    /\ UNCHANGED <<all_people_info, meal_names_list, final_seating_arrangements,
                   all_seated_neighbour_pairs_globally, meal_idx, stack, found_plan>>
    /\ UNCHANGED rotation_vars

(* else: make sure the meal key exists. *)
NoPlanFound ==
    /\ pc = "ret"
    /\ stack = << >>
    /\ found_plan = None
    /\ final_seating_arrangements' =
           IF CurrentMeal \in DOMAIN final_seating_arrangements
           THEN final_seating_arrangements
           ELSE DictSet(final_seating_arrangements, CurrentMeal, << >>)
    /\ meal_idx' = meal_idx + 1
    /\ pc' = "loop"
    /\ UNCHANGED <<all_people_info, meal_names_list,
                   all_seated_neighbour_pairs_globally, stack, found_plan>>
    /\ UNCHANGED rotation_vars

(* return final_seating_arrangements *)
ReturnPlans ==
    /\ pc = "loop"
    /\ meal_idx > Len(meal_names_list)
    /\ pc' = "done"
    /\ UNCHANGED <<all_people_info, meal_names_list, final_seating_arrangements,
                   all_seated_neighbour_pairs_globally, meal_idx, stack, found_plan>>
    /\ UNCHANGED rotation_vars

Next ==
    \/ NoAttendees
    \/ OneAttendee
    \/ InvokeSearch
    \/ AllPlaced
    \/ TryPerson
    \/ NoPersonLedToSolution
    \/ ReturnFoundPlan
    \/ PlanFound
    \/ NoPlanFound
    \/ ReturnPlans

Spec == Init /\ [][Next]_vars

(* seat_people runs as one sequential program: as long as a step is possible,
   one is taken. *)
FairSpec == Spec /\ WF_vars(Next)

----------------------------------------------------------------------------
(* _find_arrangement_backtrack on its own: the call seat_people makes for a
   meal all the people of the registry attend, with any ledger over their
   names and no plan found before for the meal. *)

NamePairs(n) == {<<a, b>> \in (1 .. n) \X (1 .. n) : a < b}

SearchInit ==
    /\ \E n \in 2 .. NumPeople :
          \E f \in Facts(n), ledger \in SUBSET NamePairs(n) :
              /\ all_people_info =
                     [p \in 1 .. n |->
                         Person(NamesOf(n)[p], f.sex[p], f.relations[p],
                                f.preferred[p], {1})]
              /\ all_seated_neighbour_pairs_globally = ledger
    /\ meal_names_list = <<1>>
    /\ final_seating_arrangements = << >>
    /\ meal_idx = 1
    /\ pc = "call"
    /\ found_plan = None
    /\ stack = <<Frame(<< >>, Range(AttendeesThisMeal(1)), FALSE)>>
    /\ arr1 = << >>
    /\ arr2 = << >>
    /\ same_result = FALSE

SearchNext ==
    \/ AllPlaced
    \/ TryPerson
    \/ NoPersonLedToSolution
    \/ ReturnFoundPlan

SearchSpec == SearchInit /\ [][SearchNext]_vars

----------------------------------------------------------------------------
(* are_arrangements_same on its own: two lists of up to MaxRotLen people of a
   registry of NumPeople people; a list may hold a person more than once. *)

ListsOfPeople(n) == UNION {[1 .. len -> 1 .. n] : len \in 0 .. MaxRotLen}

RotInit ==
    /\ all_people_info =
           [p \in 1 .. NumPeople |->
               Person(NamesOf(NumPeople)[p], InTurn(NumPeople)[p], {}, {}, {})]
    /\ meal_names_list = << >>
    /\ final_seating_arrangements = << >>
    /\ all_seated_neighbour_pairs_globally = {}
    /\ meal_idx = 1
    /\ stack = << >>
    /\ found_plan = None
    /\ arr1 \in ListsOfPeople(NumPeople)
    /\ arr2 \in ListsOfPeople(NumPeople)
    /\ same_result = FALSE
    /\ pc = "compare"

CompareArrangements ==
    /\ pc = "compare"
    /\ same_result' = are_arrangements_same(arr1, arr2)
    /\ pc' = "compared"
    /\ UNCHANGED <<arr1, arr2>>
    /\ UNCHANGED <<all_people_info, meal_names_list, final_seating_arrangements,
                   all_seated_neighbour_pairs_globally, meal_idx, stack, found_plan>>

RotNext == CompareArrangements

RotSpec == RotInit /\ [][RotNext]_vars

----------------------------------------------------------------------------
(* Vocabulary of the properties.  Adjacency is stated on people, not through
   CanonicalPair: seat i of a plan of n people is next to seat (i mod n) + 1. *)

NextSeat(arrangement, i) == (i % Len(arrangement)) + 1

(* The sets {p, q} of the people on adjacent seats, the pair (last, first)
   included. *)
AdjacentPeople(arrangement) ==
    {{arrangement[i], arrangement[NextSeat(arrangement, i)]} :
        i \in 1 .. Len(arrangement)}

(* The unordered pairs of two people that sit next to each other. *)
PeoplePairs(arrangement) ==
    {pq \in AdjacentPeople(arrangement) : Cardinality(pq) = 2}

(* The ledger holds an entry for the names of these people. *)
InLedger(pq) ==
    \E entry \in all_seated_neighbour_pairs_globally :
        {entry[1], entry[2]} = {NameOf(p) : p \in pq}

(* The number of adjacent positions (i, i + 1 mod n) of the same sex. *)
SameSexCount(arrangement) ==
    Cardinality({i \in 1 .. Len(arrangement) :
                    SexOf(arrangement[i])
                        = SexOf(arrangement[NextSeat(arrangement, i)])})

(* The people whose meals hold the meal. *)
AttendeeSet(meal_name) ==
    {p \in People : meal_name \in all_people_info[p].meals}

(* The places <<meal, k>> of the Event Plan, and the plan at a place. *)
Recorded ==
    UNION {{<<m, k>> : k \in DOMAIN final_seating_arrangements[m]} :
              m \in DOMAIN final_seating_arrangements}

PlanAt(r) == final_seating_arrangements[r[1]][r[2]]

(* The orderings of all the people of a set. *)
Orderings(S) ==
    {arr \in [1 .. Cardinality(S) -> S] :
        \A i, j \in 1 .. Cardinality(S) : i # j => arr[i] # arr[j]}

(* An ordering both hard rules permit, with the ledger as it is. *)
Permitted(arr) ==
    /\ \A pq \in AdjacentPeople(arr) : ~ InLedger(pq)
    /\ SameSexCount(arr) <= 1

(* The search called by seat_people has returned; seat_people has not yet
   looked at the value. *)
SearchReturned == pc = "ret" /\ stack = << >>

(* seat_people is between two meals, or has returned. *)
BetweenEvents == pc \in {"loop", "done"}

(* The sum of the numbers n of a set of pairs <<key, n>>. *)
RECURSIVE SumOf(_)
SumOf(S) ==
    IF S = {} THEN 0
    ELSE LET x == CHOOSE y \in S : TRUE
         IN  x[2] + SumOf(S \ {x})

----------------------------------------------------------------------------
(* C1: when seat_people accepts the plan of a meal of two or more people, no
   two people on adjacent seats of it, the last and the first included, have
   an entry in the ledger as it is at that moment. *)
C1_AcceptedPairsNotInLedger ==
    (SearchReturned /\ found_plan # None)
        => \A pq \in AdjacentPeople(found_plan) : ~ InLedger(pq)

(* A plan of three or more is accepted while one of its people has an entry
   in the ledger. *)
C1_Witness ==
    /\ SearchReturned
    /\ found_plan # None
    /\ Len(found_plan) >= 3
    /\ \E p \in Range(found_plan), q \in People : p # q /\ InLedger({p, q})

(* C2: no two people sit next to each other in more than one plan of the
   Event Plan; and of two meals of different names with the same two or more
   attendees of which one has a plan, the other has none, or its plans share
   no adjacent pair with the first one's. *)
C2_NoPairTwice ==
    /\ \A r1, r2 \in Recorded :
          r1 # r2 => PeoplePairs(PlanAt(r1)) \cap PeoplePairs(PlanAt(r2)) = {}
    /\ \A m1, m2 \in DOMAIN final_seating_arrangements :
          (/\ m1 # m2
           /\ AttendeeSet(m1) = AttendeeSet(m2)
           /\ Cardinality(AttendeeSet(m1)) >= 2
           /\ final_seating_arrangements[m1] # << >>)
              => \/ final_seating_arrangements[m2] = << >>
                 \/ \A k1 \in DOMAIN final_seating_arrangements[m1],
                       k2 \in DOMAIN final_seating_arrangements[m2] :
                        PeoplePairs(final_seating_arrangements[m1][k1])
                            \cap PeoplePairs(final_seating_arrangements[m2][k2])
                            = {}

(* Two plans of two or more people are recorded, they share a person, and
   one seats three or more. *)
C2_Witness ==
    \E r1, r2 \in Recorded :
        /\ r1 # r2
        /\ Len(PlanAt(r1)) >= 3
        /\ Len(PlanAt(r2)) >= 2
        /\ Range(PlanAt(r1)) \cap Range(PlanAt(r2)) # {}

(* C3: every plan of the Event Plan has at most one adjacent position, the
   last and the first included, with two people of the same sex. *)
C3_SameSexBudget ==
    \A r \in Recorded : SameSexCount(PlanAt(r)) <= 1

(* A plan of three or more people that uses its one same-sex pair. *)
C3_Witness ==
    \E r \in Recorded :
        Len(PlanAt(r)) >= 3 /\ SameSexCount(PlanAt(r)) = 1

(* C4: the search returns None to seat_people only when no ordering of all
   the attendees of the meal is permitted by both hard rules. *)
C4_FailureOnlyIfNoOrdering ==
    (SearchReturned /\ found_plan = None)
        => \A arr \in Orderings(AttendeeSet(CurrentMeal)) : ~ Permitted(arr)

(* The search fails for three or more attendees of both sexes of whom one
   has an entry in the ledger. *)
C4_Witness ==
    /\ SearchReturned
    /\ found_plan = None
    /\ Cardinality(AttendeeSet(CurrentMeal)) >= 3
    /\ \E p, q \in AttendeeSet(CurrentMeal) : SexOf(p) # SexOf(q)
    /\ \E p \in AttendeeSet(CurrentMeal), q \in People :
          p # q /\ InLedger({p, q})

(* C5: every plan of the Event Plan seats each attendee of its meal once and
   nobody else. *)
C5_PermutationOfAttendees ==
    \A r \in Recorded :
        /\ Len(PlanAt(r)) = Cardinality(AttendeeSet(r[1]))
        /\ Range(PlanAt(r)) = AttendeeSet(r[1])

(* A plan of three or more people of a meal that somebody does not attend. *)
C5_Witness ==
    \E r \in Recorded :
        Len(PlanAt(r)) >= 3 /\ AttendeeSet(r[1]) # People

(* C6, as claimed: between two meals the ledger has as many entries as the
   plans of two or more people recorded so far have seats. *)
C6_SizeIsSumOfAttendeeCounts ==
    BetweenEvents
        => Cardinality(all_seated_neighbour_pairs_globally)
               = SumOf({<<r, Len(PlanAt(r))>> :
                           r \in {x \in Recorded : Len(PlanAt(x)) >= 2}})

(* C6, amended: the size of the ledger never goes down, and between two meals
   it is the number of recorded plans of exactly two people plus the number
   of seats of the recorded plans of three or more people. *)
C6_LedgerSize ==
    /\ [](BetweenEvents
            => Cardinality(all_seated_neighbour_pairs_globally)
                   = SumOf({<<r, IF Len(PlanAt(r)) = 2 THEN 1 ELSE Len(PlanAt(r))>> :
                               r \in {x \in Recorded : Len(PlanAt(x)) >= 2}}))
    /\ [][Cardinality(all_seated_neighbour_pairs_globally')
              >= Cardinality(all_seated_neighbour_pairs_globally)]_vars

(* A plan of two people and a plan of three or more are recorded. *)
C6_Witness ==
    /\ BetweenEvents
    /\ \E r1, r2 \in Recorded : Len(PlanAt(r1)) = 2 /\ Len(PlanAt(r2)) >= 3

(* An earlier meal of two or more attendees has no plan. *)
EarlierFailure ==
    \E i \in 1 .. (meal_idx - 1) :
        /\ Cardinality(AttendeeSet(meal_names_list[i])) >= 2
        /\ final_seating_arrangements[meal_names_list[i]] = << >>

(* Planning goes on with the next meal, the ledger as it was. *)
GoesOn ==
    /\ pc' = "loop"
    /\ meal_idx' = meal_idx + 1
    /\ all_seated_neighbour_pairs_globally' = all_seated_neighbour_pairs_globally

(* C7, as claimed: a failed search records an empty plan for the meal and
   planning goes on; when seat_people returns every meal name of the list has
   an entry; after a failure a later meal whose attendees can be seated gets
   a plan. *)
C7_EmptyPlanOnFailure ==
    /\ [][(SearchReturned /\ found_plan = None)
              => (GoesOn /\ final_seating_arrangements'[CurrentMeal] = << >>)]_vars
    /\ [](pc = "done"
            => \A i \in DOMAIN meal_names_list :
                   meal_names_list[i] \in DOMAIN final_seating_arrangements)
    /\ []((SearchReturned /\ EarlierFailure
               /\ \E arr \in Orderings(AttendeeSet(CurrentMeal)) : Permitted(arr))
            => found_plan # None)

(* C7, amended: a failed search leaves the Event Plan with an entry for the
   meal, an empty plan unless an earlier occurrence of the same name in the
   list has recorded one, which is kept; the other entries are unchanged and
   planning goes on; when seat_people returns every meal name of the list has
   an entry; after a failure a later meal whose attendees can be seated gets
   a plan. *)
C7_FailureKeepsPlanning ==
    /\ [][(SearchReturned /\ found_plan = None)
              => /\ GoesOn
                 /\ DOMAIN final_seating_arrangements'
                        = DOMAIN final_seating_arrangements \cup {CurrentMeal}
                 /\ \A m \in DOMAIN final_seating_arrangements :
                        final_seating_arrangements'[m] = final_seating_arrangements[m]
                 /\ CurrentMeal \notin DOMAIN final_seating_arrangements
                        => final_seating_arrangements'[CurrentMeal] = << >>]_vars
    /\ [](pc = "done"
            => \A i \in DOMAIN meal_names_list :
                   meal_names_list[i] \in DOMAIN final_seating_arrangements)
    /\ []((SearchReturned /\ EarlierFailure
               /\ \E arr \in Orderings(AttendeeSet(CurrentMeal)) : Permitted(arr))
            => found_plan # None)

(* seat_people has returned; the search failed for the first meal, and a
   later meal of another name has a plan of two or more people. *)
C7_Witness ==
    /\ pc = "done"
    /\ Cardinality(AttendeeSet(meal_names_list[1])) >= 2
    /\ final_seating_arrangements[meal_names_list[1]] = << >>
    /\ \E i \in 2 .. Len(meal_names_list) :
          /\ meal_names_list[i] # meal_names_list[1]
          /\ \E k \in DOMAIN final_seating_arrangements[meal_names_list[i]] :
                Len(final_seating_arrangements[meal_names_list[i]][k]) >= 2

(* C8: a meal of no attendee gets an empty plan and a meal of one attendee
   the plan of that one person; in that step the search is not called (no
   frame, control stays in the for loop of seat_people) and the ledger is
   unchanged. *)
C8_NoSearchForZeroOrOne ==
    [][(AtLoopHead /\ Cardinality(AttendeeSet(CurrentMeal)) <= 1)
          => /\ GoesOn
             /\ stack' = << >>
             /\ found_plan' = found_plan
             /\ CurrentMeal \in DOMAIN final_seating_arrangements'
             /\ final_seating_arrangements'[CurrentMeal]
                    = (IF AttendeeSet(CurrentMeal) = {} THEN << >>
                       ELSE << <<CHOOSE p \in AttendeeSet(CurrentMeal) : TRUE>> >>)]_vars

(* seat_people has returned; the last meal had one attendee, who has an entry
   in the ledger, and its plan is that one person. *)
C8_Witness ==
    /\ pc = "done"
    /\ \E p \in People :
          /\ AttendeeSet(meal_names_list[Len(meal_names_list)]) = {p}
          /\ final_seating_arrangements[meal_names_list[Len(meal_names_list)]]
                 = << <<p>> >>
          /\ \E q \in People : q # p /\ InLedger({p, q})

(* C9: are_arrangements_same(A, B) is true exactly when A and B have the same
   length and B is A rotated by some k places (two empty lists are equal);
   so lists over different sets of people are not the same, and a list of
   three or more different people is not the same as its reversal. *)
Rotated(arr, k) == SubSeq(arr, k + 1, Len(arr)) \o SubSeq(arr, 1, k)

Reversed(arr) == [i \in 1 .. Len(arr) |-> arr[Len(arr) + 1 - i]]

C9_SameIffRotation ==
    pc = "compared"
        => /\ same_result
                 <=> (/\ Len(arr1) = Len(arr2)
                      /\ \E k \in 0 .. Len(arr1) : arr2 = Rotated(arr1, k))
           /\ Range(arr1) # Range(arr2) => ~ same_result
           /\ (/\ Len(arr1) >= 3
               /\ Cardinality(Range(arr1)) = Len(arr1)
               /\ arr2 = Reversed(arr1)) => ~ same_result

(* Two different lists of three or more people were found to be the same. *)
C9_Witness ==
    /\ pc = "compared"
    /\ same_result
    /\ Len(arr1) >= 3
    /\ arr1 # arr2

(* C10, as claimed: among the candidates of the lowest score not yet tried
   (all the remaining people, for the first seat) the search goes on with the
   one that comes first in the registry. *)
C10_TriedInRegistryOrder ==
    [][(pc = "call" /\ Len(stack') = Len(stack) + 1)
          => \A q \in NextInSortedOrder(Top) :
                 PersonSeatedLast(stack'[Len(stack')].current_arrangement) <= q]_vars

----------------------------------------------------------------------------
(* Scenario A: the registry is Alice (female), Bob (male), Carol (female) and
   Dave (male), in that order, without relations; Alice and Bob name each
   other as preferred, and so do Carol and Dave. *)
Guests == [Alice |-> 1, Bob |-> 2, Carol |-> 3, Dave |-> 4]

Alice == Guests.Alice
Bob == Guests.Bob
Carol == Guests.Carol
Dave == Guests.Dave

ScenarioARegistry ==
    /\ Len(all_people_info) = 4
    /\ SexOf(Alice) = "female" /\ SexOf(Bob) = "male"
    /\ SexOf(Carol) = "female" /\ SexOf(Dave) = "male"
    /\ \A p \in People : all_people_info[p].relations = {}
    /\ all_people_info[Alice].preferred = {NameOf(Bob)}
    /\ all_people_info[Bob].preferred = {NameOf(Alice)}
    /\ all_people_info[Carol].preferred = {NameOf(Dave)}
    /\ all_people_info[Dave].preferred = {NameOf(Carol)}

(* The search of a meal all four attend is running, or has just returned to
   seat_people, and the ledger is empty. *)
ScenarioA ==
    /\ ScenarioARegistry
    /\ pc \in {"call", "ret"}
    /\ AttendeeSet(CurrentMeal) = People
    /\ all_seated_neighbour_pairs_globally = {}

(* Two people sit next to each other in a plan. *)
SitTogether(arrangement, p, q) == {p, q} \in AdjacentPeople(arrangement)

(* The score the code gives to seating q after last, stated from the rules:
   50 for the one same-sex pair, 100 for a relation either way, -1000 for a
   preference either way. *)
ScoreByRules(last, q) ==
    (IF SexOf(last) = SexOf(q) THEN 50 ELSE 0)
    + (IF NameOf(q) \in all_people_info[last].relations
          \/ NameOf(last) \in all_people_info[q].relations THEN 100 ELSE 0)
    + (IF NameOf(q) \in all_people_info[last].preferred
          \/ NameOf(last) \in all_people_info[q].preferred THEN -1000 ELSE 0)

(* C11: in Scenario A the search returns a plan to seat_people, whoever sits
   on the first seat; in the plan Alice sits next to Bob and Carol next to
   Dave, and no two people of the same sex sit next to each other.  The plan
   is the first one completed: every call seats, after the last person, a
   remaining person of the lowest score, and no call returns None. *)
C11_ScenarioA ==
    /\ []((ScenarioA /\ SearchReturned)
            => /\ found_plan # None
               /\ SitTogether(found_plan, Alice, Bob)
               /\ SitTogether(found_plan, Carol, Dave)
               /\ SameSexCount(found_plan) = 0)
    /\ [][(ScenarioA /\ pc = "call" /\ Len(stack') = Len(stack) + 1
              /\ Top.current_arrangement # << >>)
             => \A q \in Top.remaining_people :
                    ScoreByRules(PersonSeatedLast(Top.current_arrangement),
                                 PersonSeatedLast(stack'[Len(stack')].current_arrangement))
                        <= ScoreByRules(PersonSeatedLast(Top.current_arrangement), q)]_vars
    /\ [][(ScenarioA /\ pc = "call" /\ Len(stack') < Len(stack))
             => found_plan' # None]_vars

(* In Scenario A the search has returned a plan with Dave on the first seat. *)
C11_Witness ==
    /\ ScenarioA
    /\ SearchReturned
    /\ found_plan # None
    /\ found_plan[1] = Dave

----------------------------------------------------------------------------
(* Scenario C, for any number of attendees: the meal has two or more
   attendees, all of one sex, none of whom names a relation or a preferred
   person. *)
SameSexEvent(meal_name) ==
    /\ Cardinality(AttendeeSet(meal_name)) >= 2
    /\ \A p, q \in AttendeeSet(meal_name) : SexOf(p) = SexOf(q)
    /\ \A p \in AttendeeSet(meal_name) :
          /\ all_people_info[p].relations = {}
          /\ all_people_info[p].preferred = {}

(* C12: the search of a meal of two or more attendees, all of one sex and
   without relations or preferences, returns None to seat_people whatever the
   ledger holds, and the meal's plan is empty once seat_people has dealt with
   it.  The second person seated uses up the one same-sex pair (the forward
   edge), so that the pair of the last and the first person is refused; this
   is also how a meal of two attendees fails. *)
C12_SameSexEventFails ==
    /\ (SearchReturned /\ SameSexEvent(CurrentMeal)) => found_plan = None
    /\ BetweenEvents
          => \A i \in 1 .. (meal_idx - 1) :
                 SameSexEvent(meal_names_list[i])
                     => final_seating_arrangements[meal_names_list[i]] = << >>
    /\ (pc = "call" /\ SameSexEvent(CurrentMeal)
           /\ Len(Top.current_arrangement) >= 2)
          => Top.sex_violation_already_used_up

(* The search of a meal of two women, or two men, has failed; the ledger is
   not empty, and has no entry for the two. *)
C12_Witness ==
    /\ SearchReturned
    /\ found_plan = None
    /\ SameSexEvent(CurrentMeal)
    /\ Cardinality(AttendeeSet(CurrentMeal)) = 2
    /\ all_seated_neighbour_pairs_globally # {}
    /\ ~ InLedger(AttendeeSet(CurrentMeal))

(* The same for a meal of three attendees. *)
C12_ThreeAttendees ==
    /\ SearchReturned
    /\ found_plan = None
    /\ SameSexEvent(CurrentMeal)
    /\ Cardinality(AttendeeSet(CurrentMeal)) = 3
    /\ all_seated_neighbour_pairs_globally # {}

----------------------------------------------------------------------------
(* The pairs <<a, b>> of names, a before b in the order of the names, of the
   people who sit next to each other in a plan, the last and the first
   included. *)
PairsOfNames(arrangement) ==
    {ab \in {NameOf(p) : p \in People} \X {NameOf(p) : p \in People} :
        /\ ab[1] < ab[2]
        /\ \E pq \in AdjacentPeople(arrangement) :
              {NameOf(p) : p \in pq} = {ab[1], ab[2]}}

(* C13: the ledger is empty when planning starts and never loses a pair; it
   changes only in the step in which seat_people accepts a plan: a failed
   search and a meal of no or one attendee leave it as it is, and accepting a
   plan adds the pairs of names, smaller name first, of its adjacent seats,
   the last and the first included, and nothing else. *)
C13_LedgerChangesOnlyOnAcceptance ==
    /\ []((pc = "loop" /\ meal_idx = 1)
            => all_seated_neighbour_pairs_globally = {})
    /\ [][all_seated_neighbour_pairs_globally
              \subseteq all_seated_neighbour_pairs_globally']_vars
    /\ [][all_seated_neighbour_pairs_globally' # all_seated_neighbour_pairs_globally
              => (SearchReturned /\ found_plan # None)]_vars
    /\ [][(\/ SearchReturned /\ found_plan = None
           \/ AtLoopHead /\ Cardinality(AttendeeSet(CurrentMeal)) <= 1)
              => all_seated_neighbour_pairs_globally'
                     = all_seated_neighbour_pairs_globally]_vars
    /\ [][(SearchReturned /\ found_plan # None)
              => all_seated_neighbour_pairs_globally'
                     = all_seated_neighbour_pairs_globally
                           \cup PairsOfNames(found_plan)]_vars

(* seat_people has returned; the search failed for one meal and a plan of
   three or more people was accepted for another, whose pairs are the
   ledger. *)
C13_Witness ==
    /\ pc = "done"
    /\ EarlierFailure
    /\ \E r \in Recorded :
          /\ Len(PlanAt(r)) >= 3
          /\ all_seated_neighbour_pairs_globally = PairsOfNames(PlanAt(r))
          /\ Cardinality(all_seated_neighbour_pairs_globally) = Len(PlanAt(r))

----------------------------------------------------------------------------
(* C14: planning terminates.  The call at place i of the stack has i - 1
   people seated, each recursive call one more than its caller, so that the
   recursive calls below the call seat_people makes are never more than the
   meal has attendees; the search is left only by returning to seat_people;
   seat_people takes the meals one by one in the order of the list, and in
   the end it has returned, having dealt with all of them. *)
C14_PlanningTerminates ==
    /\ [](pc \in {"call", "ret"}
            => /\ \A i \in DOMAIN stack :
                      /\ Len(stack[i].current_arrangement) = i - 1
                      /\ Cardinality(Range(stack[i].current_arrangement)) = i - 1
                      /\ Range(stack[i].current_arrangement)
                             \subseteq AttendeeSet(CurrentMeal)
               /\ Len(stack) - 1 <= Cardinality(AttendeeSet(CurrentMeal)))
    /\ [][meal_idx' = meal_idx \/ meal_idx' = meal_idx + 1]_vars
    /\ [][pc' = "done" => pc = "loop" /\ meal_idx = Len(meal_names_list) + 1]_vars
    /\ [][(pc \in {"call", "ret"} /\ pc' \notin {"call", "ret"})
              => SearchReturned]_vars
    /\ <>[](pc = "done")

(* seat_people has returned; the search of a meal of three or more attendees
   returned None, and the search of another returned a plan of three or more
   people. *)
C14_Witness ==
    /\ pc = "done"
    /\ \E i \in DOMAIN meal_names_list :
          /\ Cardinality(AttendeeSet(meal_names_list[i])) >= 3
          /\ final_seating_arrangements[meal_names_list[i]] = << >>
    /\ \E r \in Recorded : Len(PlanAt(r)) >= 3

(* The recursion is as deep as it gets: NumPeople people are seated. *)
C14_DeepestCall ==
    /\ pc = "call"
    /\ Len(stack) = NumPeople + 1

====
